---- MODULE Spec2Model ----
(***************************************************************************)
(* Playbase server (src/server.js): an express application over an Oracle  *)
(* store (tables users and videos), a multer upload pipeline writing to    *)
(* uploads/, and the in-process catalog cache loadedData.                  *)
(*                                                                         *)
(* Node runs one callback at a time: the code between two awaits is one    *)
(* atomic action, and every await (a store call, a bcrypt call) is a point *)
(* where other requests interleave and where the store call may throw.     *)
(* Text that the code inspects character by character (file names, MIME    *)
(* types, paths) is a sequence of one-character strings; text the code     *)
(* only tests for emptiness or passes on is a TLA+ string.                 *)
(***************************************************************************)
EXTENDS Integers, Sequences, FiniteSets, TLC

\* ------------------------------------------------------------------ bounds
\* Request slots; each slot carries one request from arrival to response.
MaxReq == 3
\* Date.now() advances at most this many milliseconds.
MaxTick == 1
\* What Date.now() returns when the server starts listening.
StartTime == 9

Reqs == 1..MaxReq

\* ------------------------------------------------------------------- text
NULL == <<>>

UpperChars == <<"A","B","C","D","E","F","G","H","I","J","K","L","M",
                "N","O","P","Q","R","S","T","U","V","W","X","Y","Z">>
LowerChars == <<"a","b","c","d","e","f","g","h","i","j","k","l","m",
                "n","o","p","q","r","s","t","u","v","w","x","y","z">>

\* String.prototype.toLowerCase on one character, then on a text.
lowerChar(c) ==
    IF \E i \in 1..Len(UpperChars) : UpperChars[i] = c
    THEN LowerChars[CHOOSE i \in 1..Len(UpperChars) : UpperChars[i] = c]
    ELSE c

toLowerCase(s) == [i \in 1..Len(s) |-> lowerChar(s[i])]

\* Whether pat occurs in s (an unanchored regular expression of literals).
Contains(s, pat) ==
    \E i \in 1..(Len(s) - Len(pat) + 1) : SubSeq(s, i, i + Len(pat) - 1) = pat

EndsWith(s, suf) ==
    /\ Len(suf) <= Len(s)
    /\ SubSeq(s, Len(s) - Len(suf) + 1, Len(s)) = suf

\* path.extname of a name without directory separators (busboy hands multer
\* the base name): from the last dot to the end, and empty when there is no
\* dot, when the only dot leads the name, and for "..".
extname(name) ==
    LET dots == {i \in 1..Len(name) : name[i] = "."}
        startDot == CHOOSE i \in dots : \A j \in dots : j <= i
    IN  IF dots = {} THEN <<>>
        ELSE IF startDot = 1 THEN <<>>
        ELSE IF name = <<".", ".">> THEN <<>>
        ELSE SubSeq(name, startDot, Len(name))

DigitChars == <<"0","1","2","3","4","5","6","7","8","9">>

\* Number-to-string conversion of a non-negative integer (the + of line 43).
RECURSIVE numberToString(_)
numberToString(n) ==
    IF n < 10 THEN <<DigitChars[n + 1]>>
    ELSE numberToString(n \div 10) \o <<DigitChars[(n % 10) + 1]>>


\* ---------------------------------------------------------- upload pipeline
\* The alternatives of the regular expression /mp4|mov|avi|mkv/ (line 51).
fileTypes == { <<"m","p","4">>, <<"m","o","v">>, <<"a","v","i">>, <<"m","k","v">> }

\* fileTypes.test(s): RegExp.prototype.test of an unanchored alternation.
fileTypesTest(s) == \E pat \in fileTypes : Contains(s, pat)

\* multer's fileFilter (lines 50-60): TRUE is cb(null, true), FALSE is
\* cb(new Error("Only video files are allowed!")).
fileFilter(file) ==
    LET extnameOk  == fileTypesTest(toLowerCase(extname(file.originalname)))
        mimetypeOk == fileTypesTest(file.mimetype)
    IN  extnameOk /\ mimetypeOk

\* limits.fileSize (line 49), in bytes.
fileSize == 200 * 1024 * 1024

\* storage.filename (lines 41-44): Date.now() + path.extname(originalname).
filename(file, dateNow) == numberToString(dateNow) \o extname(file.originalname)

UploadsPrefix == <<"/","u","p","l","o","a","d","s","/">>

\* `/uploads/${req.file.filename}` (line 115).
videoPathOf(name) == UploadsPrefix \o name

\* The object pushed on the cache after an upload (line 131): no id field.
CacheEntry(title, description, tags, videoPath) ==
    [title |-> title, description |-> description, tags |-> tags,
     videoPath |-> videoPath]

\* A cache update that puts the new entry first.
pushFront(data, entry) == <<entry>> \o data

\* loadedData.push(entry) (line 131).
push(data, entry) == Append(data, entry)

\* The value loadData assigns to loadedData from the rows of
\* SELECT * FROM videos (lines 76-84).  The source defines loadData and
\* never calls it (lines 225-229 start the server without it), so no action
\* of this model applies it.
loadData(rows) ==
    [i \in 1..Len(rows) |->
        [id |-> rows[i].id, title |-> rows[i].title,
         description |-> rows[i].description, tags |-> rows[i].tags,
         videoPath |-> rows[i].video_path]]

\* ------------------------------------------------------------- credentials
\* bcrypt.hash(password, 10) with the salt it drew (line 162): the stored
\* text carries the algorithm, the cost, the salt and the salted digest.
bcryptHash(password, salt) == <<"$2a$", 10, salt, <<salt, password>>>>

\* bcrypt.compare(password, stored) (line 205): re-hash with the stored salt.
bcryptCompare(password, stored) == stored = bcryptHash(password, stored[3])

\* Rows of SELECT * FROM users WHERE username = :username (lines 152-155).
selectUsers(table, username) ==
    {i \in 1..Len(table) : table[i].username = username}

\* A duplicate test that is off by one.
usernameExistsOffByOne(rows) == Cardinality(rows) > 1

\* The duplicate test of line 157 on the rows selected.
usernameExists(rows) == Cardinality(rows) > 0

\* ---------------------------------------------------------------- responses
Response(status, message) == [status |-> status, message |-> message]

NoResponse == Response(0, "")

UploadMissing   == Response(400, "Please provide all fields and a video file.")
UploadOk        == Response(200, "Video uploaded successfully!")
UploadDbError   == Response(500, "Database error")
InternalError   == Response(500, "An internal server error occurred.")
CredsMissing    == Response(400, "Please provide both username and password.")
SignupDuplicate == Response(400, "Username already exists.")
SignupOk        == Response(200, "User registered successfully!")
SignupError     == Response(500, "Error registering user.")
LoginNoUserTold == Response(404, "User not found.")
LoginNoUser     == Response(401, "Invalid username or password.")
LoginMismatch   == Response(401, "Invalid username or password.")
LoginOk         == Response(200, "Login successful!")
LoginError      == Response(500, "Error logging in.")

\* -------------------------------------------------------------------- state
VARIABLES
    users,        \* table users: sequence of rows [id, username, password]
    videos,       \* table videos: rows [id, title, description, tags, video_path]
    disk,         \* uploads/: files [name, content], content the upload's slot
    loadedData,   \* the catalog cache (line 71)
    dateNow,      \* the value the last call of Date.now() returned
    conns,        \* requests holding an open store connection
    req,          \* per slot: the request, its position and its locals
    listing       \* the body of the last GET /api/videos response, if any

vars == <<users, videos, disk, loadedData, dateNow, conns, req, listing>>

\* --------------------------------------------------------------- the inputs
File(originalname, mimetype, size) ==
    [originalname |-> originalname, mimetype |-> mimetype, size |-> size]

\* req.file when the request carries no file part (undefined in the source).
NoFile == [originalname |-> <<>>, mimetype |-> <<>>, size |-> -1]

Upload(file, title, description, tags) ==
    [file |-> file, title |-> title, description |-> description, tags |-> tags]

ClipMp4  == <<"c","l","i","p",".","m","p","4">>
TalkMP4  == <<"t","a","l","k",".","M","P","4">>
ClipMov  == <<"c","l","i","p",".","m","o","v">>
ClipAvi  == <<"c","l","i","p",".","a","v","i">>
ClipMkv  == <<"c","l","i","p",".","m","k","v">>
ClipMp4v == <<"c","l","i","p",".","m","p","4","v">>
NotesTxt == <<"n","o","t","e","s",".","t","x","t">>
Mp4Txt   == <<"m","p","4",".","t","x","t">>
NoExt    == <<"m","p","4">>
DotFile  == <<".","m","p","4">>

VideoMp4       == <<"v","i","d","e","o","/","m","p","4">>
VideoQuicktime == <<"v","i","d","e","o","/","q","u","i","c","k","t","i","m","e">>
VideoMsvideo   == <<"v","i","d","e","o","/","x","-","m","s","v","i","d","e","o">>
VideoMatroska  == <<"v","i","d","e","o","/","x","-","m","a","t","r","o","s","k","a">>
VideoAvi       == <<"v","i","d","e","o","/","a","v","i">>
AppMp4         == <<"a","p","p","l","i","c","a","t","i","o","n","/","m","p","4">>
TextPlain      == <<"t","e","x","t","/","p","l","a","i","n">>
ImagePng       == <<"i","m","a","g","e","/","p","n","g">>

\* The uploads the requests of Spec are drawn from: two accepted files with
\* different metadata, a QuickTime file, a missing field, a missing file, and
\* a file one byte over the limit.
UploadInputs ==
    { Upload(File(ClipMp4, VideoMp4, 10240), "Demo", "d", "x,y"),
      Upload(File(TalkMP4, VideoMp4, fileSize), "Talk", "t", "z"),
      Upload(File(ClipMov, VideoQuicktime, 10240), "Demo", "d", "x,y"),
      Upload(File(ClipMp4, VideoMp4, 10240), "", "d", "x,y"),
      Upload(NoFile, "Demo", "d", "x,y"),
      Upload(File(ClipMp4, VideoMp4, fileSize + 1), "Demo", "d", "x,y") }

\* The uploads SpecGate puts through the type gate.
GateNames == { ClipMp4, TalkMP4, ClipMov, ClipAvi, ClipMkv, ClipMp4v,
               NotesTxt, Mp4Txt, NoExt, DotFile }
GateMimes == { VideoMp4, VideoQuicktime, VideoMsvideo, VideoMatroska,
               VideoAvi, AppMp4, TextPlain, ImagePng }
GateInputs ==
    { Upload(File(n, m, sz), t, "d", "x,y") :
        n \in GateNames, m \in GateMimes, sz \in {fileSize, fileSize + 1},
        t \in {"Demo"} }
    \cup { Upload(NoFile, "Demo", "d", "x,y"),
           Upload(File(ClipMp4, VideoMp4, 10240), "", "d", "x,y") }

Creds(username, password) == [username |-> username, password |-> password]

\* The bodies the signup requests are drawn from, and those of the login
\* requests: the same, and a username nobody signs up with.
Credentials ==
    { Creds("", "secret123"), Creds("alice", ""),
      Creds("alice", "secret123"), Creds("alice", "wrongpass") }
LoginBodies == Credentials \cup { Creds("bob", "secret123") }

\* --------------------------------------------------------------------- Init
Idle ==
    [kind |-> "none", pc |-> "idle", input |-> NULL, videoPath |-> NULL,
     hashedPassword |-> NULL, storedPassword |-> NULL, res |-> NoResponse,
     hadRow |-> FALSE, registered |-> FALSE]

\* A row the videos table holds from an earlier run, and its file.
OldName == <<"7",".","m","p","4">>
OldRow ==
    [id |-> 1, title |-> "Old", description |-> "o", tags |-> "w",
     video_path |-> videoPathOf(OldName)]

\* The state once the module has been evaluated and the server listens
\* (lines 71, 225-229): the store holds what an earlier run left (one video
\* and its file, no user yet), the cache is the empty array of line 71.
Init ==
    /\ users = <<>>
    /\ videos = <<OldRow>>
    /\ disk = {[name |-> OldName, content |-> 0]}
    /\ loadedData = <<>>
    /\ dateNow = StartTime
    /\ conns = {}
    /\ req = [r \in Reqs |-> Idle]
    /\ listing = <<>>

\* ------------------------------------------------------------------ helpers
Done(r) == req[r].pc = "done"

\* Slots are taken in order: a request arrives in the first idle slot.
CanArrive(r) ==
    /\ req[r].pc = "idle"
    /\ \A q \in Reqs : q < r => req[q].pc # "idle"

Arrived(r, kind, input) == [Idle EXCEPT !.kind = kind, !.input = input]

Respond(rec, res) == [rec EXCEPT !.pc = "done", !.res = res]

\* fs write of a whole file under uploads/: creates or overwrites.
writeFile(d, name, content) ==
    {f \in d : f.name # name} \cup {[name |-> name, content |-> content]}

\* fs.unlink, which multer calls for the file of a request that failed.
removeFile(d, name) == {f \in d : f.name # name}

FileNames(d) == {f.name : f \in d}

\* ------------------------------------------------------------ the clock
\* What a call of Date.now() may return: the value of the last call or a
\* later one.
ClockReads == {t \in dateNow..(dateNow + 1) : t <= StartTime + MaxTick}

\* ------------------------------------------------------- GET /api/videos
\* Lines 101-108: res.json(loadedData); listing holds the body sent.
ListVideos ==
    /\ listing' = <<loadedData>>
    /\ UNCHANGED <<users, videos, disk, loadedData, dateNow, conns, req>>

\* ----------------------------------------------------- POST /upload-video
\* Lines 113-119 with the multer middleware of lines 37-61: the type gate,
\* the file stored under its generated name (now is what Date.now() returns
\* at line 43), the size limit, and the handler up to its first await.
UploadArrive(r, in, now) ==
    /\ CanArrive(r)
    /\ LET a == Arrived(r, "upload", in)
           name == filename(in.file, now)
           path == videoPathOf(name)
       IN  \/ \* no file part: req.file is undefined, videoPath is null
              /\ in.file = NoFile
              /\ req' = [req EXCEPT ![r] = Respond(a, UploadMissing)]
              /\ UNCHANGED <<disk, dateNow>>
           \/ \* fileFilter refuses: the error reaches the handler of line 220
              /\ in.file # NoFile
              /\ ~fileFilter(in.file)
              /\ req' = [req EXCEPT ![r] = Respond(a, InternalError)]
              /\ UNCHANGED <<disk, dateNow>>
           \/ \* LIMIT_FILE_SIZE: multer removes the file it was writing
              /\ in.file # NoFile
              /\ fileFilter(in.file)
              /\ in.file.size > fileSize
              /\ req' = [req EXCEPT ![r] = Respond(a, InternalError)]
              /\ disk' = removeFile(disk, name)
              /\ dateNow' = now
           \/ \* stored, then a field is missing (line 117)
              /\ in.file # NoFile
              /\ fileFilter(in.file)
              /\ in.file.size <= fileSize
              /\ (in.title = "" \/ in.description = "" \/ in.tags = "")
              /\ req' = [req EXCEPT
                            ![r] = Respond([a EXCEPT !.videoPath = path],
                                           UploadMissing)]
              /\ disk' = writeFile(disk, name, r)
              /\ dateNow' = now
           \/ \* stored, all fields present: await getConnection (line 122)
              /\ in.file # NoFile
              /\ fileFilter(in.file)
              /\ in.file.size <= fileSize
              /\ in.title # "" /\ in.description # "" /\ in.tags # ""
              /\ req' = [req EXCEPT
                            ![r] = [a EXCEPT !.videoPath = path,
                                             !.pc = "connect"]]
              /\ disk' = writeFile(disk, name, r)
              /\ dateNow' = now
    /\ UNCHANGED <<users, videos, loadedData, conns, listing>>

At(r, kind, pc) == req[r].kind = kind /\ req[r].pc = pc

\* Line 122: the connection is acquired.
UploadConnect(r) ==
    /\ At(r, "upload", "connect")
    /\ conns' = conns \cup {r}
    /\ req' = [req EXCEPT ![r].pc = "insert"]
    /\ UNCHANGED <<users, videos, disk, loadedData, dateNow, listing>>

\* Lines 123-127: the INSERT is executed, not yet committed.
UploadInsert(r) ==
    /\ At(r, "upload", "insert")
    /\ req' = [req EXCEPT ![r].pc = "commit"]
    /\ UNCHANGED <<users, videos, disk, loadedData, dateNow, conns, listing>>

\* The row INSERT INTO videos adds; the store assigns the id.
videoRow(table, in, path) ==
    [id |-> Len(table) + 1, title |-> in.title, description |-> in.description,
     tags |-> in.tags, video_path |-> path]

\* Line 128: the commit makes the row part of the table.
UploadCommit(r) ==
    /\ At(r, "upload", "commit")
    /\ videos' = Append(videos, videoRow(videos, req[r].input, req[r].videoPath))
    /\ req' = [req EXCEPT ![r].pc = "close"]
    /\ UNCHANGED <<users, disk, loadedData, dateNow, conns, listing>>

\* Lines 129-132: the connection closes, then the cache append and the
\* response run in the same turn.
UploadClose(r) ==
    /\ At(r, "upload", "close")
    /\ conns' = conns \ {r}
    /\ loadedData' =
          push(loadedData,
               CacheEntry(req[r].input.title, req[r].input.description,
                          req[r].input.tags, req[r].videoPath))
    /\ req' = [req EXCEPT ![r] = Respond(req[r], UploadOk)]
    /\ UNCHANGED <<users, videos, disk, dateNow, listing>>

\* Lines 133-136: any awaited store call of lines 122-129 throws.  Nothing
\* is undone: the file stays, an uncommitted INSERT never reaches the table,
\* a connection already acquired is not closed.
UploadThrow(r) ==
    /\ req[r].kind = "upload"
    /\ req[r].pc \in {"connect", "insert", "commit", "close"}
    /\ req' = [req EXCEPT ![r] = Respond(req[r], UploadDbError)]
    /\ UNCHANGED <<users, videos, disk, loadedData, dateNow, conns, listing>>

\* ------------------------------------------------------------ POST /signup
\* Lines 140-149: the presence check, then await getConnection.  The ghost
\* field hadRow records whether the table held the username on arrival.
SignupArrive(r, in) ==
    /\ CanArrive(r)
    /\ LET a == [Arrived(r, "signup", in) EXCEPT
                    !.hadRow = (selectUsers(users, in.username) # {})]
       IN  \/ /\ (in.username = "" \/ in.password = "")
              /\ req' = [req EXCEPT ![r] = Respond(a, CredsMissing)]
           \/ /\ in.username # "" /\ in.password # ""
              /\ req' = [req EXCEPT ![r] = [a EXCEPT !.pc = "connect"]]
    /\ UNCHANGED <<users, videos, disk, loadedData, dateNow, conns, listing>>

\* Line 149.
SignupConnect(r) ==
    /\ At(r, "signup", "connect")
    /\ conns' = conns \cup {r}
    /\ req' = [req EXCEPT ![r].pc = "select"]
    /\ UNCHANGED <<users, videos, disk, loadedData, dateNow, listing>>

\* Lines 152-162: the existence check on the committed rows; a duplicate is
\* answered at once (the connection stays open), otherwise await bcrypt.hash.
SignupSelect(r) ==
    /\ At(r, "signup", "select")
    /\ \/ /\ usernameExists(selectUsers(users, req[r].input.username))
          /\ req' = [req EXCEPT ![r] = Respond(req[r], SignupDuplicate)]
       \/ /\ ~usernameExists(selectUsers(users, req[r].input.username))
          /\ req' = [req EXCEPT ![r].pc = "hash"]
    /\ UNCHANGED <<users, videos, disk, loadedData, dateNow, conns, listing>>

\* Line 162: bcrypt.hash resolves with a freshly salted hash; the salt of
\* each call is its own (the slot number stands for the random draw).
SignupHash(r) ==
    /\ At(r, "signup", "hash")
    /\ req' = [req EXCEPT
                  ![r].hashedPassword = bcryptHash(req[r].input.password, r),
                  ![r].pc = "insert"]
    /\ UNCHANGED <<users, videos, disk, loadedData, dateNow, conns, listing>>

\* Lines 164-167: the INSERT is executed, not yet committed.
SignupInsert(r) ==
    /\ At(r, "signup", "insert")
    /\ req' = [req EXCEPT ![r].pc = "commit"]
    /\ UNCHANGED <<users, videos, disk, loadedData, dateNow, conns, listing>>

\* The row INSERT INTO users adds; the store assigns the id and checks no
\* uniqueness.
userRow(table, username, hashed) ==
    [id |-> Len(table) + 1, username |-> username, password |-> hashed]

\* Line 168.
SignupCommit(r) ==
    /\ At(r, "signup", "commit")
    /\ users' = Append(users, userRow(users, req[r].input.username,
                                      req[r].hashedPassword))
    /\ req' = [req EXCEPT ![r].pc = "close"]
    /\ UNCHANGED <<videos, disk, loadedData, dateNow, conns, listing>>

\* Lines 169-171.
SignupClose(r) ==
    /\ At(r, "signup", "close")
    /\ conns' = conns \ {r}
    /\ req' = [req EXCEPT ![r] = Respond(req[r], SignupOk)]
    /\ UNCHANGED <<users, videos, disk, loadedData, dateNow, listing>>

\* Lines 172-175: an awaited store call of lines 149-169 throws.
SignupThrow(r) ==
    /\ req[r].kind = "signup"
    /\ req[r].pc \in {"connect", "select", "insert", "commit", "close"}
    /\ req' = [req EXCEPT ![r] = Respond(req[r], SignupError)]
    /\ UNCHANGED <<users, videos, disk, loadedData, dateNow, conns, listing>>

\* ------------------------------------------------------------- POST /login
\* Whether a signup with these credentials has been answered 200.
Registered(in) ==
    \E q \in Reqs : req[q].kind = "signup" /\ req[q].input = in
                     /\ Done(q) /\ req[q].res = SignupOk

\* Lines 179-187.  The ghost field registered records whether a signup with
\* the same body had succeeded when the login arrived.
LoginArrive(r, in) ==
    /\ CanArrive(r)
    /\ LET a == [Arrived(r, "login", in) EXCEPT !.registered = Registered(in)]
       IN  \/ /\ (in.username = "" \/ in.password = "")
              /\ req' = [req EXCEPT ![r] = Respond(a, CredsMissing)]
           \/ /\ in.username # "" /\ in.password # ""
              /\ req' = [req EXCEPT ![r] = [a EXCEPT !.pc = "connect"]]
    /\ UNCHANGED <<users, videos, disk, loadedData, dateNow, conns, listing>>

\* Line 187.
LoginConnect(r) ==
    /\ At(r, "login", "connect")
    /\ conns' = conns \cup {r}
    /\ req' = [req EXCEPT ![r].pc = "select"]
    /\ UNCHANGED <<users, videos, disk, loadedData, dateNow, listing>>

\* Lines 188-205: WHERE username = :username AND ROWNUM = 1 returns any one
\* matching row; none is answered 401 at once, otherwise await bcrypt.compare
\* on the row's third column.
LoginSelect(r) ==
    /\ At(r, "login", "select")
    /\ LET rows == selectUsers(users, req[r].input.username)
       IN  \/ /\ rows = {}
              /\ req' = [req EXCEPT ![r] = Respond(req[r], LoginNoUser)]
           \/ \E i \in rows :
                 req' = [req EXCEPT ![r].storedPassword = users[i].password,
                                    ![r].pc = "compare"]
    /\ UNCHANGED <<users, videos, disk, loadedData, dateNow, conns, listing>>

\* Lines 205-212: the connection is never closed on any of these paths.
LoginCompare(r) ==
    /\ At(r, "login", "compare")
    /\ \/ /\ ~bcryptCompare(req[r].input.password, req[r].storedPassword)
          /\ req' = [req EXCEPT ![r] = Respond(req[r], LoginMismatch)]
       \/ /\ bcryptCompare(req[r].input.password, req[r].storedPassword)
          /\ req' = [req EXCEPT ![r] = Respond(req[r], LoginOk)]
    /\ UNCHANGED <<users, videos, disk, loadedData, dateNow, conns, listing>>

\* Lines 213-216: an awaited store call of lines 187-191 throws.
LoginThrow(r) ==
    /\ req[r].kind = "login"
    /\ req[r].pc \in {"connect", "select"}
    /\ req' = [req EXCEPT ![r] = Respond(req[r], LoginError)]
    /\ UNCHANGED <<users, videos, disk, loadedData, dateNow, conns, listing>>

\* ----------------------------------------------------------- specifications
\* The catalog routes: uploads, listings and the clock they read.
NextCatalog ==
    \/ ListVideos
    \/ \E r \in Reqs, in \in UploadInputs, now \in ClockReads :
          UploadArrive(r, in, now)
    \/ \E r \in Reqs : UploadConnect(r)
    \/ \E r \in Reqs : UploadInsert(r)
    \/ \E r \in Reqs : UploadCommit(r)
    \/ \E r \in Reqs : UploadClose(r)
    \/ \E r \in Reqs : UploadThrow(r)

\* The credential routes.
NextCredentials ==
    \/ \E r \in Reqs, in \in Credentials : SignupArrive(r, in)
    \/ \E r \in Reqs : SignupConnect(r)
    \/ \E r \in Reqs : SignupSelect(r)
    \/ \E r \in Reqs : SignupHash(r)
    \/ \E r \in Reqs : SignupInsert(r)
    \/ \E r \in Reqs : SignupCommit(r)
    \/ \E r \in Reqs : SignupClose(r)
    \/ \E r \in Reqs : SignupThrow(r)
    \/ \E r \in Reqs, in \in LoginBodies : LoginArrive(r, in)
    \/ \E r \in Reqs : LoginConnect(r)
    \/ \E r \in Reqs : LoginSelect(r)
    \/ \E r \in Reqs : LoginCompare(r)
    \/ \E r \in Reqs : LoginThrow(r)

Next == NextCatalog \/ NextCredentials

\* Every route, interleaved.
Spec == Init /\ [][Next]_vars

\* The credential routes alone (they share no state with the catalog
\* routes: users on one side, videos, disk, loadedData and dateNow on the
\* other), and the catalog routes alone.
SpecCredentials == Init /\ [][NextCredentials]_vars

SpecCatalog == Init /\ [][NextCatalog]_vars

\* The type gate on its own: one upload, drawn from GateInputs, goes through
\* the multer middleware.
NextGate == \E in \in GateInputs, now \in ClockReads : UploadArrive(1, in, now)

SpecGate == Init /\ [][NextGate]_vars

\* -------------------------------------------------------------- properties
Range(seq) == {seq[i] : i \in 1..Len(seq)}

IsReq(r, kind) == req[r].kind = kind
Answered(r, kind) == IsReq(r, kind) /\ Done(r)
InProgress(r) == req[r].pc \notin {"idle", "done"}

\* Some row of the users table carries the username with a hash of password.
HasCredentials(in) ==
    \E i \in selectUsers(users, in.username) :
        bcryptCompare(in.password, users[i].password)

\* C1: a signup answered 200 has left a row with the username and a hash of
\* the password, and every login with the same username and password that
\* arrives after that answer and meets no store error is answered 200.
C1_SignupThenLogin ==
    /\ \A s \in Reqs :
          (Answered(s, "signup") /\ req[s].res = SignupOk)
              => HasCredentials(req[s].input)
    /\ \A l \in Reqs :
          (Answered(l, "login") /\ req[l].registered /\ req[l].res # LoginError)
              => req[l].res = LoginOk

\* C2 as stated, for the requests that carry a password: every signup whose
\* username already had a row is answered 400 "Username already exists.".
C2_DuplicateAlways ==
    \A r \in Reqs :
        (Answered(r, "signup") /\ req[r].hadRow /\ req[r].input.password # "")
            => req[r].res = SignupDuplicate

\* C2 amended: a signup whose username already had a row is answered 400
\* "Please provide both username and password." when its password is empty,
\* and otherwise 400 "Username already exists." or, when a store call of the
\* request throws, 500 "Error registering user."; and no step of such a
\* request changes the users table.
C2_DuplicateRejected ==
    /\ [](\A r \in Reqs :
            (Answered(r, "signup") /\ req[r].hadRow) =>
                /\ req[r].input.password = "" => req[r].res = CredsMissing
                /\ req[r].input.password # "" =>
                      req[r].res \in {SignupDuplicate, SignupError})
    /\ [][\A r \in Reqs :
            (req'[r].kind = "signup" /\ req'[r].hadRow /\ req'[r] # req[r])
                => users' = users]_vars

\* A duplicate signup with a password present has been answered 400
\* "Username already exists.".
C2_Witness ==
    \E r \in Reqs :
        /\ Answered(r, "signup") /\ req[r].hadRow
        /\ req[r].input.password # ""
        /\ req[r].res = SignupDuplicate

\* The two cases of an answered login whose store calls all returned.
LoginAnswered(l) ==
    /\ Answered(l, "login")
    /\ req[l].input.username # "" /\ req[l].input.password # ""
    /\ req[l].res # LoginError

NoRowCase(l) == selectUsers(users, req[l].input.username) = {}

WrongPasswordCase(l) ==
    /\ selectUsers(users, req[l].input.username) # {}
    /\ ~HasCredentials(req[l].input)

C4_CacheLoadedAtStart ==
    (listing # <<>> /\ \A r \in Reqs : ~IsReq(r, "upload"))
        => /\ Len(listing[1]) = Len(videos)
           /\ listing[1] = loadData(videos)

PathsInCache == {e.videoPath : e \in Range(loadedData)}
PathsInTable == {row.video_path : row \in Range(videos)}
PathsOnDisk  == {videoPathOf(n) : n \in FileNames(disk)}

\* C5: while no upload is in progress, a videoPath is in the cache exactly
\* when its file is on disk and a row of the videos table carries it.
C5_CacheIffFileAndRow ==
    (\A r \in Reqs : ~(IsReq(r, "upload") /\ InProgress(r)))
        => \A p \in PathsInCache \cup PathsInTable \cup PathsOnDisk :
              (p \in PathsInCache) <=> (p \in PathsOnDisk /\ p \in PathsInTable)

\* The cache entry an upload request stands for, written out field by field.
EntryOf(rec) ==
    [title |-> rec.input.title, description |-> rec.input.description,
     tags |-> rec.input.tags, videoPath |-> rec.videoPath]

\* C6: in the step that answers an upload 200, the last element of the
\* cache is that upload's title, description, tags and videoPath, and the
\* videoPath ends with the extension of the uploaded file's name; and every
\* GET /api/videos response sent afterwards contains that entry.
C6_LastIsTheUpload ==
    [][/\ \A r \in Reqs :
            (~Done(r) /\ req'[r].pc = "done" /\ req'[r].kind = "upload"
                /\ req'[r].res = UploadOk)
            => /\ loadedData' # <<>>
               /\ loadedData'[Len(loadedData')] = EntryOf(req'[r])
               /\ extname(req'[r].input.file.originalname) # <<>>
               /\ EndsWith(req'[r].videoPath,
                           extname(req'[r].input.file.originalname))
       /\ listing' # listing =>
             \A r \in Reqs :
                (Answered(r, "upload") /\ req[r].res = UploadOk)
                    => EntryOf(req[r]) \in Range(listing'[1])
      ]_vars

\* An upload that arrived second has been answered 200 and is the last
\* element of the cache while the upload that arrived first is still in
\* progress, and a listing sent since holds the entry.
C6_Witness ==
    \E r1, r2 \in Reqs :
        /\ r2 < r1
        /\ IsReq(r2, "upload") /\ InProgress(r2)
        /\ Answered(r1, "upload") /\ req[r1].res = UploadOk
        /\ req[r1].input # req[r2].input
        /\ loadedData # <<>> /\ loadedData[Len(loadedData)] = EntryOf(req[r1])
        /\ listing # <<>> /\ EntryOf(req[r1]) \in Range(listing[1])

AllowedExtensions ==
    { <<".","m","p","4">>, <<".","m","o","v">>, <<".","a","v","i">>,
      <<".","m","k","v">> }
AllowedMimeTypes == {VideoMp4, VideoQuicktime, VideoMsvideo, VideoMatroska}

\* The file of upload r is in uploads/ under its generated name.
Stored(r) ==
    /\ req[r].videoPath # NULL
    /\ \E f \in disk : videoPathOf(f.name) = req[r].videoPath

\* C7: a file within the size limit passes the type gate and is stored
\* exactly when its lower-cased extension is one of .mp4 .mov .avi .mkv and
\* its MIME type is one of video/mp4, video/quicktime, video/x-msvideo,
\* video/x-matroska; any other file is refused and nothing is stored for it.
C7_TypeGate ==
    \A r \in Reqs :
        (Answered(r, "upload") \/ (IsReq(r, "upload") /\ InProgress(r)))
        /\ req[r].input.file # NoFile
        /\ req[r].input.file.size <= fileSize
        => LET file == req[r].input.file
               allowed ==
                  /\ toLowerCase(extname(file.originalname)) \in AllowedExtensions
                  /\ file.mimetype \in AllowedMimeTypes
           IN  /\ Stored(r) <=> allowed
               /\ ~allowed => (req[r].videoPath = NULL /\ Done(r)
                               /\ \A f \in disk : f.content # r)

\* C8: no two rows of the users table carry the same username.
C8_UsernameUnique ==
    \A i, j \in 1..Len(users) :
        i # j => users[i].username # users[j].username

\* C9: a request that has been answered holds no open store connection.
C9_ConnectionsReleased == \A r \in Reqs : Done(r) => r \notin conns

\* C10: two uploads whose files were stored have different videoPaths, each
\* file still holds the bytes of its own upload, and no two cache entries
\* share a videoPath.
C10_UniqueNames ==
    /\ \A r1, r2 \in Reqs :
          (r1 # r2 /\ IsReq(r1, "upload") /\ IsReq(r2, "upload")
              /\ req[r1].videoPath # NULL /\ req[r2].videoPath # NULL)
          => req[r1].videoPath # req[r2].videoPath
    /\ \A r \in Reqs :
          (IsReq(r, "upload") /\ req[r].videoPath # NULL)
          => \E f \in disk : videoPathOf(f.name) = req[r].videoPath
                             /\ f.content = r
    /\ \A i, j \in 1..Len(loadedData) :
          i # j => loadedData[i].videoPath # loadedData[j].videoPath

====
